---- MODULE Spec2Model ----
(***************************************************************************)
(* State-machine model of oyez_scraper/selenium_transcript.py:             *)
(* get_case_metadata (listing match and per-field extraction) and          *)
(* get_transcript_with_selenium (session, polling, block loop, output).    *)
(*                                                                         *)
(* The web site is the environment.  Everything the browser can return is  *)
(* drawn in Init into the record `site`; the program itself is             *)
(* deterministic, so every action below is the code of one step applied    *)
(* to what the site returns.                                               *)
(*                                                                         *)
(* Python values are tagged records [t, v]: t is "none", "str" or "list",  *)
(* v is a sequence (of one-character strings for a str).  A selector that  *)
(* matches nothing (find_element raising NoSuchElementException) is the    *)
(* site value Missing; an extraction that raises yields Raise.             *)
(***************************************************************************)
EXTENDS Integers, Sequences, FiniteSets, TLC

VARIABLES
  site,             \* what the web site returns (environment, fixed per run)
  case_name,        \* argument: the case-name fragment
  full_transcript,  \* argument: the mode flag
  pc,               \* position in get_transcript_with_selenium
  driver,           \* the browser session: "none", "open", "closed"
  exc,              \* an exception is in flight
  metadata,         \* the dict get_case_metadata returned
  attempt,          \* iterations of the polling loop begun
  blocks,           \* the local variable blocks
  i,                \* blocks the loop has gone through
  transcript,       \* the list of entries
  current_speaker,  \* the carried speaker
  files,            \* output files written
  propagated,       \* an exception left get_transcript_with_selenium
  \* history, for stating the properties:
  matched,          \* index of the matched listing entry (0: none)
  nav,              \* pages driver.get has loaded, in order
  oralTried,        \* selectors tried for the oral-argument link
  pollLog,          \* number of blocks each polling attempt returned
  entered,          \* the block loop has been entered
  status,           \* per visited block: its position and how it ended
  fallbackLog,      \* the carried speaker at each use of the page-wide fallback
  savedAt,          \* blocks gone through when the file was written
  quits,            \* calls of driver.quit
  opsAfterQuit      \* browser operations issued after driver.quit

vars == <<site, case_name, full_transcript, pc, driver, exc, metadata, attempt,
          blocks, i, transcript, current_speaker, files, propagated, matched,
          nav, oralTried, pollLog, entered, status, fallbackLog, savedAt,
          quits, opsAfterQuit>>

(* ------------------------------ bounds --------------------------------- *)

\* longest listing page of the matcher's input family
MaxListing == 2
\* longest case-name fragment (in characters) of the matcher's input family
MaxFrag == 3
\* most selector misses on one detail page of the metadata input family
MaxMisses == 2
\* most timeline items on one detail page
MaxTimeline == 2
\* most transcript blocks on the player page
MaxBlocks == 4

(* ------------------------- program constants --------------------------- *)

\* max_retries = 3
max_retries == 3
\* blocks = blocks[:3]
SampleBlocks == 3

(* --------------------------- Python values ----------------------------- *)

None == [t |-> "none", v |-> <<>>]
Missing == [t |-> "missing", v |-> <<>>]
Raise == [t |-> "raise", v |-> <<>>]
Str(s) == [t |-> "str", v |-> s]
List(l) == [t |-> "list", v |-> l]

\* Python truthiness of None, a str or a list
Truthy(x) == x.t \in {"str", "list"} /\ x.v # <<>>

IsSpace(c) == c \in {" ", "\n"}

\* str.lower on the model's alphabet
LowerChar(c) ==
  CASE c = "A" -> "a" [] c = "B" -> "b" [] c = "X" -> "x" [] OTHER -> c

Lower(s) == [k \in 1..Len(s) |-> LowerChar(s[k])]

\* the first position from k on that holds no whitespace (Len(s) + 1: none)
RECURSIVE SkipSpace(_, _)
SkipSpace(s, k) ==
  IF k <= Len(s) /\ IsSpace(s[k]) THEN SkipSpace(s, k + 1) ELSE k

\* the last position up to k that holds no whitespace (0: none)
RECURSIVE SkipSpaceBack(_, _)
SkipSpaceBack(s, k) ==
  IF k >= 1 /\ IsSpace(s[k]) THEN SkipSpaceBack(s, k - 1) ELSE k

\* str.strip
Strip(s) == SubSeq(s, SkipSpace(s, 1), SkipSpaceBack(s, Len(s)))

\* the first position from k on that holds whitespace (Len(s) + 1: none)
RECURSIVE SkipWord(_, _)
SkipWord(s, k) ==
  IF k <= Len(s) /\ ~IsSpace(s[k]) THEN SkipWord(s, k + 1) ELSE k

\* the whitespace-delimited tokens of s from position k on
RECURSIVE SplitFrom(_, _)
SplitFrom(s, k) ==
  IF SkipSpace(s, k) > Len(s) THEN <<>>
  ELSE <<SubSeq(s, SkipSpace(s, k), SkipWord(s, SkipSpace(s, k)) - 1)>>
       \o SplitFrom(s, SkipWord(s, SkipSpace(s, k)))

\* str.split(): the whitespace-delimited tokens, none of them empty
Split(s) == SplitFrom(s, 1)

\* sub in s
Contains(sub, s) ==
  \E k \in 0..(Len(s) - Len(sub)) : SubSeq(s, k + 1, k + Len(sub)) = sub

\* str.replace(word, ''), the word being one symbol of the text
Remove(s, word) == SelectSeq(s, LAMBDA c : c # word)

\* sep.join(parts)
RECURSIVE JoinFrom(_, _, _)
JoinFrom(sep, parts, k) ==
  IF k > Len(parts) THEN <<>>
  ELSE IF k = Len(parts) THEN parts[k]
  ELSE parts[k] \o sep \o JoinFrom(sep, parts, k + 1)

Join(sep, parts) == JoinFrom(sep, parts, 1)

\* dict assignment m[k] = x
Put(m, k, x) == (k :> x) @@ m

\* dict.get(k)
Get(m, k) == IF k \in DOMAIN m THEN m[k] ELSE None

EmptyDict == [y \in {} |-> None]

(* --------------------- get_case_metadata: matcher ---------------------- *)

\* Matches with the comparison of line 55 made case-sensitive
MatchesCaseSensitive(item, name) ==
  /\ item.title.t = "str"
  /\ \E k \in 1..Len(Split(name)) : Contains(Split(name)[k], Strip(item.title.v))

\* the condition of line 55, after the title lookup of line 53 (a lookup
\* that raises skips the item)
Matches(item, name) ==
  /\ item.title.t = "str"
  /\ \E k \in 1..Len(Split(name)) :
       Contains(Lower(Split(name)[k]), Lower(Strip(item.title.v)))

\* the loop of lines 50-60: index of target_case, 0 when it stays None
RECURSIVE FindFrom(_, _, _)
FindFrom(items, name, k) ==
  IF k > Len(items) THEN 0
  ELSE IF Matches(items[k], name) THEN k
  ELSE FindFrom(items, name, k + 1)

FindTarget(items, name) == FindFrom(items, name, 1)

(* ---------------- get_case_metadata: field extraction ------------------ *)

\* what the page holds under a selector: Missing when site.miss names it
RawText(key) ==
  CASE key = "petitioner" -> <<"Petitioner", "\n", "P", " ">>
    [] key = "respondent" -> <<"Respondent", "\n", "R">>
    [] key = "decided_by" -> <<"c", "t", " ">>
    [] key = "lower_court" -> <<"Lower court", "\n", "l", "c">>
    [] key = "citation" -> <<" ", "5", "9">>
    [] key = "oral_primary" -> <<"u", "1">>
    [] key = "oral_alt" -> <<"u", "2">>
    [] OTHER -> <<"t", " ", "x", " ">>

Look(s, key, k) == IF <<key, k>> \in s.miss THEN Missing ELSE Str(RawText(key))

\* lines 85-86
XPetitioner(s) ==
  IF Look(s, "parties", 0) = Missing \/ Look(s, "petitioner", 0) = Missing
  THEN Raise
  ELSE Str(Strip(Remove(Look(s, "petitioner", 0).v, "Petitioner")))

\* lines 85, 87
XRespondent(s) ==
  IF Look(s, "parties", 0) = Missing \/ Look(s, "respondent", 0) = Missing
  THEN Raise
  ELSE Str(Strip(Remove(Look(s, "respondent", 0).v, "Respondent")))

\* line 93: find_element(...).strip(); the XPath ends in /text(), which is
\* no element, and a WebElement has no strip method: the statement raises
\* whatever the page holds
XDocketNo(s) == Raise

\* line 94
XDecidedBy(s) ==
  IF Look(s, "decided_by", 0) = Missing THEN Raise
  ELSE Str(Strip(Look(s, "decided_by", 0).v))

\* line 95
XLowerCourt(s) ==
  IF Look(s, "lower_court", 0) = Missing THEN Raise
  ELSE Str(Strip(Remove(Look(s, "lower_court", 0).v, "Lower court")))

\* lines 101-110: one advocate on the page, with a name link and a role
XAdvocates(s) ==
  IF \/ Look(s, "advocates", 0) = Missing
     \/ Look(s, "advocate_name", 0) = Missing
     \/ Look(s, "advocate_role", 0) = Missing
  THEN Raise
  ELSE List(<< [name |-> Str(Strip(Look(s, "advocate_name", 0).v)),
                role |-> Str(Strip(Look(s, "advocate_role", 0).v))] >>)

\* lines 116-118, 124-126, 132-134: a section of two paragraphs
XSection(s, key) ==
  IF Look(s, key, 0) = Missing THEN Raise
  ELSE Str(Join(<<"\n", "\n">>,
                <<Strip(Look(s, key, 0).v), Strip(<<" ", "p">>)>>))

\* lines 141-147 and 154-159: the attribute of the link a selector finds
XOralPrimary(s) ==
  IF Look(s, "oral_primary", 0) = Missing THEN Raise ELSE Look(s, "oral_primary", 0)

XOralAlt(s) ==
  IF Look(s, "oral_alt", 0) = Missing THEN Raise ELSE Look(s, "oral_alt", 0)

\* lines 167, 171-175
XCitation(s) ==
  IF Look(s, "timeline", 0) = Missing \/ Look(s, "citation", 0) = Missing
  THEN Raise
  ELSE Str(Strip(Look(s, "citation", 0).v))

\* the h3 texts of the timeline items, in page order
HeaderText(k) ==
  CASE k % 3 = 1 -> "Granted" [] k % 3 = 2 -> "Argued" [] OTHER -> "Decided"

\* header text .strip().lower(), the header being one word
HeaderKey(k) ==
  CASE HeaderText(k) = "Granted" -> "granted"
    [] HeaderText(k) = "Argued" -> "argued"
    [] OTHER -> "decided"

\* line 189
XHeader(s, k) ==
  IF <<"header", k>> \in s.miss THEN Raise ELSE [t |-> "key", v |-> HeaderKey(k)]

\* line 191
XDate(s, k) ==
  IF <<"date", k>> \in s.miss THEN Raise ELSE Str(Strip(<<"d", " ">>))

Raised(x) == x.t = "raise"

\* lines 84-89: one try around both parties
PartiesStep(m, s) ==
  IF Raised(XPetitioner(s)) THEN m
  ELSE IF Raised(XRespondent(s)) THEN Put(m, "petitioner", XPetitioner(s))
  ELSE Put(Put(m, "petitioner", XPetitioner(s)), "respondent", XRespondent(s))

\* lines 92-97: one try around the three case details
DetailsStep(m, s) ==
  IF Raised(XDocketNo(s)) THEN m
  ELSE IF Raised(XDecidedBy(s)) THEN Put(m, "docket_no", XDocketNo(s))
  ELSE IF Raised(XLowerCourt(s))
    THEN Put(Put(m, "docket_no", XDocketNo(s)), "decided_by", XDecidedBy(s))
  ELSE Put(Put(Put(m, "docket_no", XDocketNo(s)),
               "decided_by", XDecidedBy(s)), "lower_court", XLowerCourt(s))

\* lines 100-112
AdvocatesStep(m, s) ==
  IF Raised(XAdvocates(s)) THEN m ELSE Put(m, "advocates", XAdvocates(s))

\* lines 115-120, 123-128, 131-136
SectionStep(m, s, key) ==
  IF Raised(XSection(s, key)) THEN m ELSE Put(m, key, XSection(s, key))

\* OralStep without the second lookup of lines 152-160
OralStepNoFallback(m, s) ==
  IF ~Raised(XOralPrimary(s)) THEN Put(m, "oral_argument_url", XOralPrimary(s))
  ELSE Put(m, "oral_argument_url", None)

\* lines 139-163: the looser selector of line 154 runs in the handler of the
\* first lookup
OralStep(m, s) ==
  IF ~Raised(XOralPrimary(s)) THEN Put(m, "oral_argument_url", XOralPrimary(s))
  ELSE IF ~Raised(XOralAlt(s)) THEN Put(m, "oral_argument_url", XOralAlt(s))
  ELSE Put(m, "oral_argument_url", None)

\* the selectors lines 141 and 154 hand to find_element, in order
OralTried(s) ==
  IF ~Raised(XOralPrimary(s)) THEN <<"primary">> ELSE <<"primary", "alt">>

\* lines 170-178
CitationStep(m, s) ==
  IF Raised(XCitation(s)) THEN Put(m, "citation", None)
  ELSE Put(m, "citation", XCitation(s))

\* the local variable header before line 189 first assigns it
Unbound == "<unbound>"

\* lines 186-195: the loop over the timeline items from item k on, header
\* being the local variable as the previous iterations left it.  A lookup of
\* the h3 that raises leaves header as it was: the handler then raises
\* NameError itself (header unbound, which ends the loop in the handler of
\* line 197) or assigns None under the previous item's key.
RECURSIVE TimelineLoop(_, _, _, _)
TimelineLoop(m, s, k, header) ==
  IF k > s.timeline_n THEN m
  ELSE IF Raised(XHeader(s, k))
    THEN IF header = Unbound THEN m
         ELSE TimelineLoop(Put(m, header, None), s, k + 1, header)
  ELSE IF Raised(XDate(s, k))
    THEN TimelineLoop(Put(m, XHeader(s, k).v, None), s, k + 1, XHeader(s, k).v)
  ELSE TimelineLoop(Put(m, XHeader(s, k).v, XDate(s, k)), s, k + 1,
                    XHeader(s, k).v)

\* lines 166-198
TimelineStep(m, s) ==
  IF Look(s, "timeline", 0) = Missing THEN m
  ELSE TimelineLoop(CitationStep(m, s), s, 1, Unbound)

\* lines 83-198, once the detail page is loaded
DetailSteps(m, s) ==
  TimelineStep(
    OralStep(
      SectionStep(
        SectionStep(
          SectionStep(AdvocatesStep(DetailsStep(PartiesStep(m, s), s), s),
                      s, "facts"),
          s, "question"),
        s, "conclusion"),
      s),
    s)

\* line 70
XTitle(item) == Str(Strip(item.title.v))

\* line 71
XUrl(item) == item.href

\* lines 75-76
XDescription(item) ==
  IF item.description = Missing THEN Raise ELSE Str(Strip(item.description.v))

\* line 79: driver.get(case_url) raises on a link without href
DetailLoads(item) == item.href.t = "str"

\* lines 65-212 for the matched item: the outer try ends at the first
\* failure of lines 69-81
ExtractAll(item, s) ==
  IF Raised(XDescription(item))
    THEN Put(Put(EmptyDict, "title", XTitle(item)), "url", XUrl(item))
  ELSE IF ~DetailLoads(item)
    THEN Put(Put(Put(EmptyDict, "title", XTitle(item)), "url", XUrl(item)),
             "description", XDescription(item))
  ELSE DetailSteps(
         Put(Put(Put(EmptyDict, "title", XTitle(item)), "url", XUrl(item)),
             "description", XDescription(item)), s)

\* the pages get_case_metadata navigates to (lines 32 and 79)
MetadataNav(items, name, s) ==
  IF FindTarget(items, name) = 0 THEN <<"listing">>
  ELSE IF \/ Raised(XDescription(items[FindTarget(items, name)]))
          \/ ~DetailLoads(items[FindTarget(items, name)]) THEN <<"listing">>
  ELSE <<"listing", "detail">>

\* get_case_metadata (lines 9-212): raised is the exception of line 63
GetCaseMetadata(s, name) ==
  LET t == CHOOSE k \in {FindTarget(s.case_items, name)} : TRUE
  IN [raised |-> t = 0,
      target |-> t,
      metadata |-> IF t = 0 THEN EmptyDict ELSE ExtractAll(s.case_items[t], s),
      nav |-> MetadataNav(s.case_items, name, s),
      tried |-> IF t = 0 \/ MetadataNav(s.case_items, name, s) = <<"listing">>
                THEN <<>> ELSE OralTried(s)]

(* -------------------- get_transcript_with_selenium --------------------- *)

\* a browser operation issued now counts when the session is already closed
Op == IF driver = "closed" THEN opsAfterQuit + 1 ELSE opsAfterQuit

\* lines 237-241
Start ==
  /\ pc = "start"
  /\ driver' = "open"
  /\ pc' = "metadata"
  /\ UNCHANGED <<site, case_name, full_transcript, exc, metadata, attempt,
                 blocks, i, transcript, current_speaker, files, propagated,
                 matched, nav, oralTried, pollLog, entered, status,
                 fallbackLog, savedAt, quits, opsAfterQuit>>

\* AfterMetadata without the early return of lines 249-251
AfterMetadataNoReturn(r) == IF r.raised THEN "except" ELSE "load"

\* where line 245-251 leave control: the handler of line 361 when
\* get_case_metadata raised, the return of line 251 (through finally) when
\* the URL is falsy, line 254 otherwise
AfterMetadata(r) ==
  IF r.raised THEN "except"
  ELSE IF ~Truthy(Get(r.metadata, "oral_argument_url")) THEN "finally"
  ELSE "load"

\* lines 245-251
CallMetadata ==
  /\ pc = "metadata"
  /\ \E r \in {GetCaseMetadata(site, case_name)} :
        /\ matched' = r.target
        /\ metadata' = r.metadata
        /\ nav' = nav \o r.nav
        /\ oralTried' = r.tried
        /\ exc' = r.raised
        /\ pc' = AfterMetadata(r)
  /\ opsAfterQuit' = Op
  /\ UNCHANGED <<site, case_name, full_transcript, driver, attempt, blocks, i,
                 transcript, current_speaker, files, propagated, pollLog,
                 entered, status, fallbackLog, savedAt, quits>>

\* lines 254-264: driver.get of the player page; the wait of lines 259-264
\* only passes time, whether it times out or not
LoadTranscript ==
  /\ pc = "load"
  /\ IF site.player_ok
       THEN /\ nav' = nav \o <<"player">>
            /\ pc' = "poll"
            /\ exc' = FALSE
       ELSE /\ nav' = nav
            /\ pc' = "except"
            /\ exc' = TRUE
  /\ opsAfterQuit' = Op
  /\ UNCHANGED <<site, case_name, full_transcript, driver, metadata, attempt,
                 blocks, i, transcript, current_speaker, files, propagated,
                 matched, oralTried, pollLog, entered, status, fallbackLog,
                 savedAt, quits>>

\* what find_elements of line 269 returns at the a-th attempt: the page
\* renders its blocks asynchronously, from attempt site.appear on
FindBlocks(s, a) == IF a >= s.appear THEN s.blocks ELSE <<>>

\* MoreAttempts with the bound off by one
MoreAttemptsOffByOne(a) == a <= max_retries

\* the loop of line 268 goes on: fewer than max_retries iterations begun
MoreAttempts(a) == a < max_retries

\* line 270: break at the first non-empty result
PollBreaks(found) == found # <<>>

\* lines 268-275, one iteration
Poll ==
  /\ pc = "poll"
  /\ MoreAttempts(attempt)
  /\ LET found == FindBlocks(site, attempt + 1)
     IN /\ blocks' = found
        /\ pollLog' = Append(pollLog, Len(found))
        /\ attempt' = attempt + 1
        /\ pc' = IF PollBreaks(found) \/ ~MoreAttempts(attempt + 1)
                 THEN "check" ELSE "poll"
  /\ opsAfterQuit' = Op
  /\ UNCHANGED <<site, case_name, full_transcript, driver, exc, metadata, i,
                 transcript, current_speaker, files, propagated, matched, nav,
                 oralTried, entered, status, fallbackLog, savedAt, quits>>

Min(a, b) == IF a < b THEN a ELSE b

\* LimitBlocks with the slice one block too long
LimitBlocksOffByOne(bs, full) ==
  IF ~full THEN SubSeq(bs, 1, Min(SampleBlocks + 1, Len(bs))) ELSE bs

\* lines 283-287
LimitBlocks(bs, full) ==
  IF ~full THEN SubSeq(bs, 1, Min(SampleBlocks, Len(bs))) ELSE bs

\* lines 277-290
CheckBlocks ==
  /\ pc = "check"
  /\ IF blocks = <<>>
       THEN /\ exc' = TRUE
            /\ pc' = "except"
            /\ UNCHANGED <<blocks, transcript, current_speaker, i, entered>>
       ELSE /\ blocks' = LimitBlocks(blocks, full_transcript)
            /\ transcript' = <<>>
            /\ current_speaker' = None
            /\ i' = 0
            /\ entered' = TRUE
            /\ pc' = "loop"
            /\ exc' = FALSE
  /\ UNCHANGED <<site, case_name, full_transcript, driver, metadata, attempt,
                 files, propagated, matched, nav, oralTried, pollLog, status,
                 fallbackLog, savedAt, quits, opsAfterQuit>>

(* ------------------------- the block loop ------------------------------ *)

\* UsesFallback with a plain else in place of the elif of line 321
UsesFallbackAlways(cs, label) == ~Truthy(label)

\* line 321: the branch of the page-wide lookup is taken
UsesFallback(cs, label) == ~Truthy(label) /\ ~Truthy(cs)

\* ResolveSpeaker without the .strip() of line 320
ResolveSpeakerNoStrip(cs, label, speakers) ==
  IF Truthy(label) THEN Str(label.v)
  ELSE IF UsesFallback(cs, label)
    THEN IF speakers # <<>> THEN Str(Strip(speakers[1])) ELSE cs
  ELSE cs

\* lines 319-325: the carried speaker after a block whose turn label is
\* label, cs being the carried speaker before it and speakers the h4
\* elements of the whole page
ResolveSpeaker(cs, label, speakers) ==
  IF Truthy(label) THEN Str(Strip(label.v))
  ELSE IF UsesFallback(cs, label)
    THEN IF speakers # <<>> THEN Str(Strip(speakers[1])) ELSE cs
  ELSE cs

\* Emits without the test of the text
EmitsWithoutText(text, cs) == Truthy(cs)

\* line 327
Emits(text, cs) == Truthy(text) /\ Truthy(cs)

\* lines 328-333
Entry(b, cs) ==
  [speaker |-> cs, text |-> Str(Strip(b.text)),
   start_time |-> b.start_time, stop_time |-> b.stop_time]

\* lines 292-340, one iteration; b.fail: a browser call of lines 295-317
\* raises, which the handler of line 338 turns into `continue`
ProcessBlock ==
  /\ pc = "loop"
  /\ i < Len(blocks)
  /\ LET b == blocks[i + 1]
         cs == ResolveSpeaker(current_speaker, b.label, site.speakers)
     IN IF b.fail
          THEN /\ status' = Append(status, [block |-> b.start_time,
                                            outcome |-> "FAILED"])
               /\ UNCHANGED <<current_speaker, transcript, fallbackLog>>
          ELSE /\ current_speaker' = cs
               /\ fallbackLog' =
                    IF UsesFallback(current_speaker, b.label)
                    THEN Append(fallbackLog, current_speaker) ELSE fallbackLog
               /\ transcript' =
                    IF Emits(Str(Strip(b.text)), cs)
                    THEN Append(transcript, Entry(b, cs)) ELSE transcript
               /\ status' = Append(status,
                    [block |-> b.start_time,
                     outcome |-> IF Emits(Str(Strip(b.text)), cs)
                                 THEN "APPENDED" ELSE "SKIPPED"])
  /\ i' = i + 1
  /\ opsAfterQuit' = Op
  /\ UNCHANGED <<site, case_name, full_transcript, pc, driver, exc, metadata,
                 attempt, blocks, files, propagated, matched, nav, oralTried,
                 pollLog, entered, savedAt, quits>>

\* lines 343-359, reached when the loop of line 292 is exhausted;
\* metadata['title'] raises KeyError without the key
Save ==
  /\ pc = "loop"
  /\ i = Len(blocks)
  /\ IF "title" \in DOMAIN metadata
       THEN /\ files' = files + 1
            /\ savedAt' = i
            /\ pc' = "finally"
            /\ exc' = FALSE
       ELSE /\ pc' = "except"
            /\ exc' = TRUE
            /\ UNCHANGED <<files, savedAt>>
  /\ UNCHANGED <<site, case_name, full_transcript, driver, metadata, attempt,
                 blocks, i, transcript, current_speaker, propagated, matched,
                 nav, oralTried, pollLog, entered, status, fallbackLog, quits,
                 opsAfterQuit>>

\* Except in a function that calls driver.quit() at the end of the try
\* body, with no finally clause
ExceptNoQuit ==
  /\ pc = "except"
  /\ exc' = FALSE
  /\ pc' = "done"
  /\ UNCHANGED <<site, case_name, full_transcript, driver, metadata, attempt,
                 blocks, i, transcript, current_speaker, files, propagated,
                 matched, nav, oralTried, pollLog, entered, status,
                 fallbackLog, savedAt, quits, opsAfterQuit>>

\* lines 361-362
Except ==
  /\ pc = "except"
  /\ exc' = FALSE
  /\ pc' = "finally"
  /\ UNCHANGED <<site, case_name, full_transcript, driver, metadata, attempt,
                 blocks, i, transcript, current_speaker, files, propagated,
                 matched, nav, oralTried, pollLog, entered, status,
                 fallbackLog, savedAt, quits, opsAfterQuit>>

\* lines 363-364
Finally ==
  /\ pc = "finally"
  /\ driver' = "closed"
  /\ quits' = quits + 1
  /\ propagated' = exc
  /\ pc' = "done"
  /\ opsAfterQuit' = Op
  /\ UNCHANGED <<site, case_name, full_transcript, exc, metadata, attempt,
                 blocks, i, transcript, current_speaker, files, matched, nav,
                 oralTried, pollLog, entered, status, fallbackLog, savedAt>>

Next ==
  \/ Start
  \/ CallMetadata
  \/ LoadTranscript
  \/ Poll
  \/ CheckBlocks
  \/ ProcessBlock
  \/ Save
  \/ Except
  \/ Finally

(* ----------------------------- the site -------------------------------- *)

\* the sequences over S of length at most n
SeqsUpTo(S, n) == UNION {[1..k -> S] : k \in 0..n}

\* a listing entry: its h2 link text (Missing: no such link), its
\* description and the link's href
Item(title, s) ==
  [title |-> title,
   description |-> IF <<"description", 0>> \in s THEN Missing
                   ELSE Str(<<"d", "e", " ">>),
   href |-> IF <<"href", 0>> \in s THEN None ELSE Str(<<"h">>)]

\* a transcript block at position k of the page
Block(kind, k) ==
  [fail |-> kind.fail, text |-> kind.text, label |-> kind.label,
   start_time |-> k, stop_time |-> k + 1]

BlockKinds ==
  { [fail |-> FALSE, text |-> <<"x">>, label |-> None],
    [fail |-> FALSE, text |-> <<"y", " ">>, label |-> Str(<<" ", "A">>)],
    [fail |-> FALSE, text |-> <<" ">>, label |-> Str(<<"B", " ">>)],
    [fail |-> FALSE, text |-> <<"z">>, label |-> Str(<<" ">>)],
    [fail |-> TRUE, text |-> <<"w">>, label |-> Str(<<"C">>)] }

BlocksOf(kinds) == [k \in 1..Len(kinds) |-> Block(kinds[k], k)]

PlainBlocks(n) == [k \in 1..n |-> Block([fail |-> FALSE, text |-> <<"x">>,
                                         label |-> Str(<<"A">>)], k)]

\* the state after the arguments are bound, before line 237
InitWith(s, name, full) ==
  /\ site = s
  /\ case_name = name
  /\ full_transcript = full
  /\ pc = "start"
  /\ driver = "none"
  /\ exc = FALSE
  /\ metadata = EmptyDict
  /\ attempt = 0
  /\ blocks = <<>>
  /\ i = 0
  /\ transcript = <<>>
  /\ current_speaker = None
  /\ files = 0
  /\ propagated = FALSE
  /\ matched = 0
  /\ nav = <<>>
  /\ oralTried = <<>>
  /\ pollLog = <<>>
  /\ entered = FALSE
  /\ status = <<>>
  /\ fallbackLog = <<>>
  /\ savedAt = 0
  /\ quits = 0
  /\ opsAfterQuit = 0

GoodTitle == Str(<<"A", "c", " ", "v", " ", "B">>)
GoodName == <<"a", "c">>

\* the detail-page selectors a page may miss
Selectors ==
  ({"description", "href", "parties", "petitioner", "respondent", "docket_no",
    "decided_by", "lower_court", "advocates", "advocate_name",
    "advocate_role", "facts", "question", "conclusion", "oral_primary",
    "oral_alt", "timeline", "citation"} \X {0})
  \cup ({"header", "date"} \X (1..MaxTimeline))

\* the subsets of S of at most n elements
RECURSIVE SubsetsUpTo(_, _)
SubsetsUpTo(S, n) ==
  IF n = 0 THEN {{}}
  ELSE SubsetsUpTo(S, n - 1) \cup
       {x \cup {e} : x \in SubsetsUpTo(S, n - 1), e \in S}

\* runs that differ in the listing and the fragment
MatchTitles ==
  {Str(<<"A", "c">>), Str(<<" ", "c", "B", "a">>), Str(<<"c">>), Missing}

InitMatch ==
  \E titles \in SeqsUpTo(MatchTitles, MaxListing),
     name \in SeqsUpTo({" ", "a", "B"}, MaxFrag) :
    InitWith([case_items |-> [k \in 1..Len(titles) |-> Item(titles[k], {})],
              miss |-> {}, timeline_n |-> 1, player_ok |-> TRUE,
              appear |-> 1, blocks |-> PlainBlocks(1), speakers |-> <<>>],
             name, FALSE)

\* runs that differ in what the detail page of the matched case holds
InitMeta ==
  \E miss \in SubsetsUpTo(Selectors, MaxMisses), n \in 0..MaxTimeline,
     ok \in BOOLEAN :
    InitWith([case_items |-> <<Item(GoodTitle, miss)>>,
              miss |-> miss, timeline_n |-> n, player_ok |-> ok,
              appear |-> 1, blocks |-> PlainBlocks(1), speakers |-> <<>>],
             GoodName, FALSE)

\* runs that differ in how far the run gets
InitRun ==
  \E items \in {<<>>, <<Item(GoodTitle, {})>>},
     miss \in SUBSET ({"description", "oral_primary", "oral_alt"} \X {0}),
     ok \in BOOLEAN, a \in 1..(max_retries + 1), n \in 0..MaxBlocks,
     full \in BOOLEAN :
    InitWith([case_items |-> [k \in 1..Len(items) |-> Item(GoodTitle, miss)],
              miss |-> miss, timeline_n |-> 1, player_ok |-> ok,
              appear |-> a, blocks |-> PlainBlocks(n), speakers |-> <<>>],
             GoodName, full)

\* the runs of InitRun whose detail page has both oral-argument links or
\* neither
InitFair ==
  \E items \in {<<>>, <<Item(GoodTitle, {})>>},
     miss \in {{}, {"oral_primary", "oral_alt"} \X {0}},
     ok \in BOOLEAN, a \in 1..(max_retries + 1), n \in 0..MaxBlocks,
     full \in BOOLEAN :
    InitWith([case_items |-> [k \in 1..Len(items) |-> Item(GoodTitle, miss)],
              miss |-> miss, timeline_n |-> 1, player_ok |-> ok,
              appear |-> a, blocks |-> PlainBlocks(n), speakers |-> <<>>],
             GoodName, full)

\* runs that differ in the transcript blocks
InitLoop ==
  \E kinds \in SeqsUpTo(BlockKinds, MaxBlocks),
     sp \in {<<>>, << <<" ", "F">> >>, << <<" ">>, <<"G">> >>},
     full \in BOOLEAN :
    InitWith([case_items |-> <<Item(GoodTitle, {})>>,
              miss |-> {}, timeline_n |-> 1, player_ok |-> TRUE,
              appear |-> 1, blocks |-> BlocksOf(kinds), speakers |-> sp],
             GoodName, full)

Spec == InitRun /\ [][Next]_vars
SpecMatch == InitMatch /\ [][Next]_vars
SpecMeta == InitMeta /\ [][Next]_vars
SpecLoop == InitLoop /\ [][Next]_vars
\* the function runs to its end: one thread, no step waits on anything
FairSpec == InitFair /\ [][Next]_vars /\ WF_vars(Next)

(* ============================ properties =============================== *)

\* get_case_metadata has returned or raised
AfterCall == pc \notin {"start", "metadata"}

(* ------------------------------- C3 ------------------------------------ *)

\* w is a whitespace-delimited token of name: a maximal run of characters
\* that are not whitespace, from position a to position b
IsTokenAt(name, a, b) ==
  /\ a <= b
  /\ \A k \in a..b : ~IsSpace(name[k])
  /\ a = 1 \/ IsSpace(name[a - 1])
  /\ b = Len(name) \/ IsSpace(name[b + 1])

\* title holds w at offset o, letter case aside
HoldsAt(title, w, o) ==
  /\ o + Len(w) <= Len(title)
  /\ \A k \in 1..Len(w) : LowerChar(title[o + k]) = LowerChar(w[k])

\* the k-th listing entry has a title that holds a token of the fragment
HasToken(k) ==
  /\ site.case_items[k].title.t = "str"
  /\ \E a \in 1..Len(case_name), b \in 1..Len(case_name) :
       /\ IsTokenAt(case_name, a, b)
       /\ \E o \in 0..Len(site.case_items[k].title.v) :
            HoldsAt(site.case_items[k].title.v, SubSeq(case_name, a, b), o)

\* C3: the entry get_case_metadata selects is the first one, in listing
\* order, whose title holds a whitespace-delimited token of the fragment,
\* letter case aside; when no entry does (no tokens and an empty listing
\* included) the call raises, and the detail page is never loaded.
C3_FirstMatch ==
  AfterCall =>
    /\ matched \in 0..Len(site.case_items)
    /\ matched # 0 =>
         /\ HasToken(matched)
         /\ \A k \in 1..(matched - 1) : ~HasToken(k)
         /\ metadata["title"] = Str(Strip(site.case_items[matched].title.v))
    /\ matched = 0 =>
         /\ \A k \in 1..Len(site.case_items) : ~HasToken(k)
         /\ pc \in {"except", "finally", "done"}
         /\ pc = "except" => exc
         /\ nav = <<"listing">>
         /\ metadata = EmptyDict
         /\ files = 0

\* a second entry selected through a token that differs in case, the first
\* entry holding no token
C3_Witness ==
  /\ pc = "done"
  /\ matched = 2
  /\ site.case_items[1].title.t = "str"
  /\ case_name = <<"B", "a">>

(* ------------------------------- C2 ------------------------------------ *)

\* what the extraction of one field yields on its own: its value, None
\* when it raises
Own(x) == IF Raised(x) THEN None ELSE x

\* the fields of the detail page with the value each one's own extraction
\* yields
OwnFields ==
  [petitioner |-> Own(XPetitioner(site)),
   respondent |-> Own(XRespondent(site)),
   docket_no |-> Own(XDocketNo(site)),
   decided_by |-> Own(XDecidedBy(site)),
   lower_court |-> Own(XLowerCourt(site)),
   advocates |-> Own(XAdvocates(site)),
   facts |-> Own(XSection(site, "facts")),
   question |-> Own(XSection(site, "question")),
   conclusion |-> Own(XSection(site, "conclusion")),
   oral_argument_url |->
     IF ~Raised(XOralPrimary(site)) THEN XOralPrimary(site)
     ELSE Own(XOralAlt(site)),
   citation |-> Own(XCitation(site))]

\* the timeline item k has a header of its own, so a date field of its own
DateField(k) ==
  /\ k \in 1..site.timeline_n
  /\ ~Raised(XHeader(site, k))
  /\ Look(site, "timeline", 0) # Missing

\* C2: once a case is matched, a field whose extraction fails is null (or
\* absent) in the returned metadata, and every other field holds the value
\* its own extraction yields; get_case_metadata does not raise.
C2_FieldIsolation ==
  (AfterCall /\ matched # 0) =>
    /\ ~(pc = "except" /\ nav = <<"listing">>)
    /\ Get(metadata, "title") = XTitle(site.case_items[matched])
    /\ Get(metadata, "url") = XUrl(site.case_items[matched])
    /\ Get(metadata, "description") = Own(XDescription(site.case_items[matched]))
    /\ \A f \in DOMAIN OwnFields : Get(metadata, f) = OwnFields[f]
    /\ \A k \in 1..site.timeline_n :
         DateField(k) => Get(metadata, XHeader(site, k).v) = Own(XDate(site, k))

(* ------------------------------- C7 ------------------------------------ *)

\* the detail page of the matched case was loaded
DetailLoaded == Len(nav) >= 2 /\ nav[2] = "detail"

\* C7: the looser selector is tried only when the first lookup fails; the
\* URL recorded is the first lookup's, else the looser one's, else None;
\* and with a null or absent URL the player page is never loaded and no
\* block is processed.
C7_OralLookup ==
  /\ (AfterCall /\ DetailLoaded) =>
       /\ oralTried = IF <<"oral_primary", 0>> \notin site.miss
                      THEN <<"primary">> ELSE <<"primary", "alt">>
       /\ "oral_argument_url" \in DOMAIN metadata
       /\ metadata["oral_argument_url"] =
            IF <<"oral_primary", 0>> \notin site.miss
              THEN Str(RawText("oral_primary"))
            ELSE IF <<"oral_alt", 0>> \notin site.miss
              THEN Str(RawText("oral_alt"))
            ELSE None
  /\ (AfterCall /\ ~DetailLoaded) => oralTried = <<>>
  /\ Get(metadata, "oral_argument_url") = None =>
       /\ \A k \in 1..Len(nav) : nav[k] # "player"
       /\ pollLog = <<>>
       /\ ~entered
       /\ status = <<>>
       /\ transcript = <<>>
       /\ AfterCall => pc \in {"except", "finally", "done"}

\* a run whose URL came from the looser selector and went on to the player
C7_Witness ==
  /\ pc = "done"
  /\ oralTried = <<"primary", "alt">>
  /\ metadata["oral_argument_url"] = Str(RawText("oral_alt"))
  /\ nav = <<"listing", "detail", "player">>
  /\ files = 1

(* ------------------------------- C5 ------------------------------------ *)

\* some polling attempt returned at least one block
BlocksFound == \E k \in 1..Len(pollLog) : pollLog[k] > 0

\* the conditions under which the run writes its file
Writes ==
  /\ matched # 0
  /\ Get(metadata, "oral_argument_url") # None
  /\ BlocksFound

\* C5: an output file is written at most once, only after the block loop
\* has gone through every block, and exactly in the runs where a case was
\* matched, the oral-argument URL is not null and a block was found; no
\* exception leaves get_transcript_with_selenium.
C5_OutputFile ==
  /\ files <= 1
  /\ ~propagated
  /\ files = 1 =>
       /\ Writes
       /\ entered
       /\ savedAt = Len(blocks)
       /\ Len(status) = Len(blocks)
  /\ pc = "done" => (files = 1 <=> Writes)

\* a file written after blocks that appeared at the last attempt
C5_Witness ==
  /\ pc = "done"
  /\ files = 1
  /\ pollLog = <<0, 0, 2>>
  /\ savedAt = 2

(* ------------------------------- C6 ------------------------------------ *)

\* C6: once the session is created it is closed on every path, exactly
\* once, and no browser operation is issued after it is closed.
C6_SessionRelease ==
  /\ [](/\ quits <= 1
        /\ opsAfterQuit = 0
        /\ (driver = "closed") <=> (quits = 1)
        /\ pc = "done" => driver = "closed")
  /\ (driver = "open") ~> (driver = "closed" /\ pc = "done")

\* the session closed after a run that found no block in any attempt
C6_Witness ==
  /\ pc = "done"
  /\ driver = "closed"
  /\ quits = 1
  /\ pollLog = <<0, 0, 0>>

(* ------------------------------- C8 ------------------------------------ *)

\* C8: the block lookup is attempted at most max_retries times, polling
\* stops at the first attempt that returns a block, the polling loop ends,
\* and the block loop is entered exactly when some attempt returned a block
\* (the run fails otherwise).
C8_BoundedPolling ==
  /\ [](/\ Len(pollLog) <= max_retries
        /\ \A k \in 1..(Len(pollLog) - 1) : pollLog[k] = 0
        /\ pc = "poll" => ~BlocksFound
        /\ entered => BlocksFound
        /\ (pc \in {"loop", "finally", "done"} /\ BlocksFound) => entered
        /\ (pc \in {"finally", "done"} /\ pollLog # <<>> /\ ~BlocksFound) =>
             (Len(pollLog) = max_retries /\ status = <<>> /\ files = 0))
  /\ [][(pc = "check" /\ ~BlocksFound) => (pc' = "except" /\ exc')]_vars
  /\ [][(pc = "check" /\ BlocksFound) => (pc' = "loop" /\ entered')]_vars
  /\ (pc = "poll") ~> (pc # "poll")

\* the blocks found at the last attempt allowed, and processed
C8_Witness ==
  /\ pc = "done"
  /\ pollLog = <<0, 0, 3>>
  /\ entered
  /\ Len(status) = 3

(* ------------------------- the block loop ------------------------------ *)

\* the browser calls on block k returned: its text and label were read
Readable(k) == ~blocks[k].fail

\* block k has a turn label of its own, and the loop read it
HasLabel(k) == Readable(k) /\ Truthy(blocks[k].label)

\* the last block up to k with a label of its own (0: none)
LastLabelled(k) ==
  IF \E j \in 1..k : HasLabel(j)
  THEN CHOOSE j \in 1..k : HasLabel(j) /\ \A h \in (j + 1)..k : ~HasLabel(h)
  ELSE 0

\* the first h4 of the page, stripped (None: the page has none)
PageLabel ==
  IF site.speakers # <<>> THEN Str(Strip(site.speakers[1])) ELSE None

\* the speaker block k resolves to: its own label, else the label of the
\* last labelled block before it unless that one is blank, else the first
\* label of the page
SpeakerOf(k) ==
  IF HasLabel(k) THEN Str(Strip(blocks[k].label.v))
  ELSE IF LastLabelled(k - 1) # 0
          /\ Strip(blocks[LastLabelled(k - 1)].label.v) # <<>>
    THEN Str(Strip(blocks[LastLabelled(k - 1)].label.v))
  ELSE PageLabel

\* the entries of the transcript that come from block k
EntriesOf(k) == {j \in 1..Len(transcript) : transcript[j].start_time = k}

InDocumentOrder ==
  \A j \in 2..Len(transcript) :
    transcript[j - 1].start_time < transcript[j].start_time

(* ------------------------------- C1 ------------------------------------ *)

\* C1 as stated: entries are in document order, and an entry's speaker is
\* the label of its own block if it has one, else the speaker of the entry
\* emitted just before it.
C1_PrecedingEntry ==
  /\ InDocumentOrder
  /\ \A j \in 1..Len(transcript) :
       IF HasLabel(transcript[j].start_time)
       THEN transcript[j].speaker =
              Str(Strip(blocks[transcript[j].start_time].label.v))
       ELSE j > 1 => transcript[j].speaker = transcript[j - 1].speaker

\* C1, amended: entries are in document order, and an entry's speaker is
\* the stripped label of its own block if it has one, else the carried
\* speaker: the stripped label of the last earlier block whose label the
\* loop read, whether or not that block produced an entry, or, when there
\* is no such block or its label is blank, the first label of the page.
C1_CarryOver ==
  /\ InDocumentOrder
  /\ \A j \in 1..Len(transcript) :
       /\ transcript[j].start_time \in 1..Len(blocks)
       /\ transcript[j].speaker = SpeakerOf(transcript[j].start_time)

\* an unlabelled block emitted under the label of a block that was skipped
\* for its empty text, after an entry of another speaker
C1_Witness ==
  /\ Len(transcript) >= 2
  /\ transcript[1].speaker = Str(<<"A">>)
  /\ transcript[2].speaker = Str(<<"B">>)
  /\ transcript[2].start_time = 3
  /\ blocks[3].label = None
  /\ status[2].outcome = "SKIPPED"

(* ------------------------------- C4 ------------------------------------ *)

\* block k has text, and a speaker resolves for it
Emittable(k) ==
  /\ Readable(k)
  /\ Strip(blocks[k].text) # <<>>
  /\ Truthy(SpeakerOf(k))

\* C4: in sample mode only the first 3 blocks of the page are processed and
\* the transcript has at most 3 entries; in full mode every block of the
\* page is processed and the transcript has exactly one entry for each
\* block that has text and a resolvable speaker, none for any other.
C4_EntryCount ==
  entered =>
    /\ ~full_transcript =>
         /\ Len(blocks) <= 3
         /\ blocks = SubSeq(site.blocks, 1, Len(blocks))
         /\ Len(blocks) < 3 => blocks = site.blocks
         /\ Len(status) <= 3
         /\ Len(transcript) <= 3
    /\ full_transcript =>
         /\ blocks = site.blocks
         /\ \A k \in 1..Len(blocks) :
              Cardinality(EntriesOf(k)) = IF k <= i /\ Emittable(k) THEN 1 ELSE 0
         /\ files = 1 => i = Len(site.blocks)

\* a sample run on a page of more than 3 blocks
C4_Witness ==
  /\ pc = "done"
  /\ ~full_transcript
  /\ Len(site.blocks) > 3
  /\ Len(status) = 3
  /\ Len(transcript) = 3

(* ------------------------------- C9 ------------------------------------ *)

\* C9: the blocks within the limit are visited once each, in document
\* order, each ending APPENDED, SKIPPED or FAILED; a failed block appends
\* nothing and the loop goes on after it; an entry is appended only with a
\* non-empty text and a non-empty speaker.
C9_BlockIsolation ==
  /\ Len(status) = i
  /\ i <= Len(blocks)
  /\ \A k \in 1..Len(status) :
       /\ status[k].block = k
       /\ status[k].outcome \in {"APPENDED", "SKIPPED", "FAILED"}
       /\ blocks[k].fail <=> status[k].outcome = "FAILED"
       /\ Cardinality(EntriesOf(k)) = IF status[k].outcome = "APPENDED" THEN 1 ELSE 0
       /\ status[k].outcome = "SKIPPED" =>
            Strip(blocks[k].text) = <<>> \/ ~Truthy(SpeakerOf(k))
  /\ \A j \in 1..Len(transcript) :
       /\ transcript[j].start_time \in 1..Len(status)
       /\ Truthy(transcript[j].text)
       /\ Truthy(transcript[j].speaker)
  /\ InDocumentOrder
  /\ pc \in {"finally", "done"} /\ entered => Len(status) = Len(blocks)

\* a failed block followed by a block that was appended
C9_Witness ==
  /\ pc = "done"
  /\ Len(status) >= 3
  /\ status[1].outcome = "FAILED"
  /\ status[2].outcome = "APPENDED"
  /\ status[3].outcome = "SKIPPED"

(* ------------------------------- C10 ----------------------------------- *)

\* every turn label of the page holds a character that is not whitespace
LabelsNotBlank ==
  \A k \in 1..Len(site.blocks) :
    site.blocks[k].label = None \/ Strip(site.blocks[k].label.v) # <<>>

\* C10: with no blank turn label on the page, after each block the carried
\* speaker is the stripped label of the last processed block that had a
\* label of its own, whether or not that block produced an entry; the
\* page-wide fallback is used only while no speaker is established.
C10_CarriedSpeaker ==
  (entered /\ LabelsNotBlank) =>
    /\ LastLabelled(i) # 0 =>
         current_speaker = Str(Strip(blocks[LastLabelled(i)].label.v))
    /\ LastLabelled(i) = 0 => current_speaker \in {None, PageLabel}
    /\ \A k \in 1..Len(fallbackLog) : ~Truthy(fallbackLog[k])
    /\ Len(fallbackLog) > 0 /\ Truthy(PageLabel) => Len(fallbackLog) = 1

\* the label of a block skipped for its empty text is the carried speaker
\* while a later unlabelled block is processed, and the fallback, used for
\* the first block, is not used again
C10_Witness ==
  /\ LabelsNotBlank
  /\ i = 3
  /\ Len(fallbackLog) = 1
  /\ status[2].outcome = "SKIPPED"
  /\ HasLabel(2)
  /\ blocks[3].label = None
  /\ status[3].outcome = "APPENDED"
  /\ current_speaker = Str(<<"B">>)

====
